---- MODULE Spec2Model ----
(***************************************************************************)
(* Model of the per-event Strategy Engine of the ladder bot                *)
(* (src/strategy_engine.py) together with the exchange client it drives    *)
(* (src/polymarket_client.py) and the exchange behind that client.         *)
(*                                                                         *)
(* Units: prices are in cents, sizes in shares.  A price that the code     *)
(* computes by division (the weighted average entry of a sell lot, which   *)
(* is also the price of a reload buy) is an exact rational [n, d].         *)
(* One event is modelled; its two outcome tokens are named by their side.  *)
(***************************************************************************)
EXTENDS Integers, Sequences, FiniteSets, TLC

(***************************************************************************)
(* Bounds of the model.                                                    *)
(***************************************************************************)
MaxOrders == 4        \* order ids the exchange hands out in one run
MaxLadder == 1        \* ladder placements the exchange accepts in one call
MaxFills == 2         \* matching events on the exchange in one run
MaxApiFails == 1      \* engine calls during which an API endpoint is down
MaxRestarts == 1      \* process restarts in one run
MaxCancels == 1       \* cancellations by the exchange itself (resolution)
MaxCredits == 2       \* sell-fill credits of one order after which polling stops

\* Rungs of the ladder on which the exchange accepts a buy in this model:
\* the lowest rung, a low-priority pair sharing an exit price, and the
\* protected top rung.
AcceptedRungs == {<<"YES", 40>>, <<"YES", 44>>, <<"YES", 45>>, <<"NO", 48>>}
\* Cumulative matched sizes a partial fill can stop at.
FillLevels == {4, 10}
\* Best bids the order book can show for an outcome (0: none fetched yet).
BidLevels == {0, 18, 30}

(***************************************************************************)
(* Configuration (src/config.py).                                          *)
(***************************************************************************)
Sides == {"YES", "NO"}
LADDER_LEVELS == <<40, 41, 42, 43, 44, 45, 46, 47, 48>>
EXIT_PRICES == [p \in {37, 38, 39, 41, 42, 43, 44, 45, 46, 47, 48} |->
                  CASE p = 48 -> 49
                    [] p \in {46, 47} -> 48
                    [] p \in {41, 42, 43, 44, 45} -> 47
                    [] OTHER -> 45]
DEFAULT_EXIT == 49
STOP_LOSS_PRICE == 18
STOP_LOSS_ENTRIES == {48}
ORDER_SIZE == 30
MIN_SHARES == 6
MIN_NOTIONAL == 100
HIGH_PRIORITY == 46
SPAM_FLOOR == 10
DUMP_PRICE == 1
API_FAIL_ALERT == 20

(***************************************************************************)
(* Exact rationals, normalised, for the prices the code divides.           *)
(***************************************************************************)
RECURSIVE Gcd(_, _)
Gcd(a, b) == IF b = 0 THEN a ELSE Gcd(b, a % b)

Abs(x) == IF x < 0 THEN -x ELSE x
Max(x, y) == IF x < y THEN y ELSE x

Q(n, d) == LET g == Gcd(Abs(n), d) IN [n |-> n \div g, d |-> d \div g]
QInt(i) == [n |-> i, d |-> 1]
QAdd(a, b) == Q(a.n * b.d + b.n * a.d, a.d * b.d)
QSub(a, b) == Q(a.n * b.d - b.n * a.d, a.d * b.d)
QMul(a, k) == Q(a.n * k, a.d)
QDiv(a, k) == Q(a.n, a.d * k)
QLess(a, b) == a.n * b.d < b.n * a.d
QLeq(a, b) == a.n * b.d <= b.n * a.d
\* |a - b| < 0.001 dollars, i.e. less than a tenth of a cent
QNear(a, b) == 10 * Abs(a.n * b.d - b.n * a.d) < a.d * b.d
\* round(x, 2) of a non-negative dollar amount: the nearest cent
QRound(a) == (2 * a.n + a.d) \div (2 * a.d)


(***************************************************************************)
(* State.                                                                  *)
(***************************************************************************)
VARIABLES
  states,             \* StrategyEngine._states[slug], "NONE" when absent
  positions,          \* StrategyEngine._positions[slug]
  results,            \* StrategyEngine._results[slug] (CycleResult)
  buy_orders,         \* StrategyEngine._buy_orders[slug]
  sell_orders,        \* StrategyEngine._sell_orders[slug]
  stop_loss_orders,   \* StrategyEngine._stop_loss_orders[slug]
  known_filled,       \* StrategyEngine._known_filled
  pending_sells,      \* StrategyEngine._pending_sells
  fill_accumulator,   \* StrategyEngine._fill_accumulator, in insertion order
  phase,              \* EventContext.phase
  ex,                 \* the exchange's order book: id -> order
  bal,                \* settled token balance per outcome token
  unsettled,          \* bought shares not yet visible in the balance
  obs,                \* observation of the run (not program state)
  last,               \* the last engine call and what it returned
  pc,                 \* the statement ProductionBot.run() stands at
  run,                \* ProductionBot and its EventScanner, for the event
  nfills, nfail, nrestart, ncancel   \* budgets of the bounded run

engineVars == <<states, positions, results, buy_orders, sell_orders,
                stop_loss_orders, known_filled, pending_sells,
                fill_accumulator>>
vars == <<states, positions, results, buy_orders, sell_orders,
          stop_loss_orders, known_filled, pending_sells, fill_accumulator,
          phase, ex, bal, unsettled, obs, last, pc, run,
          nfills, nfail, nrestart, ncancel>>

Ids == 1 .. MaxOrders

NoOrder == [side |-> "YES", typ |-> "BUY", price |-> QInt(0), size |-> 0,
            matched |-> 0, status |-> "NONE", via |-> "none", cause |-> 0]

EmptyResult == [total_pnl |-> QInt(0), fills_yes |-> <<>>, fills_no |-> <<>>,
                ended |-> FALSE]

\* Accumulator keys of the event: (side, exit price)
ExitLevels == {EXIT_PRICES[p] : p \in DOMAIN EXIT_PRICES} \cup {DEFAULT_EXIT}
AccKeys == Sides \X ExitLevels

\* What the run has shown so far, per engine process:
\*   subm     every SELL submitted to the exchange, and whether the
\*            unreserved settled balance covered it at that moment
\*   seen     per buy order, the largest size_matched a status read returned
\*   fed      per buy order, the sum of the deltas given to process_buy_fill
\*   credit   per sell order, the PnL added to the Cycle Result for it
\*   ncredit  per sell order, the number of times PnL was added for it
\*   filled   per accumulator key, the shares added to it
\*   emitted  per accumulator key, the shares of the sells placed or queued
\*   nread    per buy order, the reads that showed more than processed_size
\*   back     per buy order, the reads that showed less than processed_size
\*   npos     per buy order, the Positions created for it
\*   asked    the ladder BUYs submitted to the exchange, in order
NoObs == [subm |-> {}, seen |-> [i \in Ids |-> 0], fed |-> [i \in Ids |-> 0],
          credit |-> [i \in Ids |-> QInt(0)], ncredit |-> [i \in Ids |-> 0],
          filled |-> [k \in AccKeys |-> 0], emitted |-> [k \in AccKeys |-> 0],
          nread |-> [i \in Ids |-> 0], back |-> [i \in Ids |-> 0],
          npos |-> [i \in Ids |-> 0], asked |-> <<>>]

\* The engine and the exchange it talks to, threaded through one call.
\* placed, notes and ret are the call's outputs.
World == [states |-> states, positions |-> positions, results |-> results,
          buy_orders |-> buy_orders, sell_orders |-> sell_orders,
          stop_loss_orders |-> stop_loss_orders,
          known_filled |-> known_filled, pending_sells |-> pending_sells,
          fill_accumulator |-> fill_accumulator,
          ex |-> ex, bal |-> bal, obs |-> obs,
          placed |-> 0, notes |-> <<>>, ret |-> 0, unread |-> {},
          rejected |-> {}, armed |-> {}]

\* What the API endpoints answer during one engine call.
\* stale: get_order answers with an older size_matched than the current one
ApiUp == [open |-> TRUE, bal |-> TRUE, place |-> TRUE, cancel |-> TRUE,
          noread |-> {}, stale |-> FALSE]
ApiInputs ==
  {ApiUp} \cup
  {[ApiUp EXCEPT !.open = FALSE], [ApiUp EXCEPT !.bal = FALSE],
   [ApiUp EXCEPT !.place = FALSE], [ApiUp EXCEPT !.cancel = FALSE],
   [ApiUp EXCEPT !.noread = Ids],
   [ApiUp EXCEPT !.open = FALSE, !.noread = Ids],
   [ApiUp EXCEPT !.open = FALSE, !.place = FALSE]}

(***************************************************************************)
(* Exchange client (src/polymarket_client.py).  Every method swallows its  *)
(* exceptions and answers an empty value instead.                          *)
(***************************************************************************)
RECURSIVE LockedUpTo(_, _, _)
LockedUpTo(book, side, i) ==
  IF i = 0 THEN 0
  ELSE LockedUpTo(book, side, i - 1) +
       (IF /\ book[i].status = "LIVE" /\ book[i].typ = "SELL"
           /\ book[i].side = side
        THEN book[i].size - book[i].matched ELSE 0)

\* Shares of a token reserved by the account's open sells.
Reserved(book, side) == LockedUpTo(book, side, MaxOrders)

get_open_orders(w, api) ==
  IF api.open THEN {i \in Ids : w.ex[i].status = "LIVE"} ELSE {}

get_token_balance(w, side, api) == IF api.bal THEN w.bal[side] ELSE 0

\* get_order(id)["size_matched"]: the current figure, or, from a lagging
\* API, the figure before the latest fill
StaleOf(m) ==
  LET older == {l \in FillLevels \cup {0} : l < m}
  IN IF older = {} THEN m ELSE CHOOSE l \in older : \A o \in older : o <= l
get_order_size_matched(w, id, api) ==
  IF api.stale THEN StaleOf(w.ex[id].matched) ELSE w.ex[id].matched

\* locked_in_sells as the engine sums it from get_open_orders()
RECURSIVE LockedSeen(_, _, _, _)
LockedSeen(w, side, open, i) ==
  IF i = 0 THEN 0
  ELSE LockedSeen(w, side, open, i - 1) +
       (IF i \in open /\ w.ex[i].typ = "SELL" /\ w.ex[i].side = side
        THEN w.ex[i].size - w.ex[i].matched ELSE 0)

locked_in_sells(w, side, api) ==
  LockedSeen(w, side, get_open_orders(w, api), MaxOrders)

FreeIds(w) == {i \in Ids : w.ex[i].status = "NONE"}
Min(S) == CHOOSE x \in S : \A y \in S : x <= y

TrackedOrder(id, side, typ, price, size) ==
  [order_id |-> id, side |-> side, order_type |-> typ, price |-> price,
   size |-> size, entry_price |-> QInt(0), processed_size |-> 0,
   api_fail_count |-> 0]

\* The exchange takes an order when the endpoint answers, the price is a
\* price, and, for a sell, the unreserved settled balance covers the size.
Accepts(w, side, typ, price, size, api) ==
  /\ api.place
  /\ FreeIds(w) # {}
  /\ price.n > 0 /\ size > 0
  /\ typ = "SELL" => w.bal[side] - Reserved(w.ex, side) >= size

place_limit_order(w, side, typ, price, size, api, via, cause) ==
  LET seen == IF typ = "SELL"
              THEN w.obs.subm \cup
                   {[via |-> via, side |-> side, price |-> price,
                     size |-> size,
                     covered |-> w.bal[side] - Reserved(w.ex, side) >= size]}
              ELSE w.obs.subm
      asked == IF via = "ladder"
               THEN Append(w.obs.asked, <<side, price, size>>)
               ELSE w.obs.asked
  IN IF Accepts(w, side, typ, price, size, api)
     THEN LET id == Min(FreeIds(w))
          IN [w EXCEPT !.ex[id] = [side |-> side, typ |-> typ,
                                   price |-> price, size |-> size,
                                   matched |-> 0, status |-> "LIVE",
                                   via |-> via, cause |-> cause],
                       !.obs.subm = seen, !.obs.asked = asked, !.placed = id]
     ELSE [w EXCEPT !.obs.subm = seen, !.obs.asked = asked, !.placed = 0,
                    !.rejected = @ \cup {[via |-> via, side |-> side,
                                          typ |-> typ, price |-> price,
                                          size |-> size]}]

\* cancel_order: TRUE when the exchange cancelled, FALSE on any failure.
cancel_ok(w, id, api) == api.cancel /\ w.ex[id].status = "LIVE"
cancel_order(w, id, api) ==
  IF cancel_ok(w, id, api) THEN [w EXCEPT !.ex[id].status = "CANCELED"] ELSE w

(***************************************************************************)
(* Strategy engine helpers.                                                *)
(***************************************************************************)
get_exit_price(entry_price) ==
  LET entry_rounded == QRound(entry_price)
  IN IF entry_rounded \in DOMAIN EXIT_PRICES
     THEN EXIT_PRICES[entry_rounded] ELSE DEFAULT_EXIT

needs_stop_loss_always(entry_price) == TRUE
needs_stop_loss(entry_price) == QRound(entry_price) \in STOP_LOSS_ENTRIES

Notify(w, kind) == [w EXCEPT !.notes = Append(@, kind)]

\* get_order(id) answered nothing during this call
Unread(w, id) == [w EXCEPT !.unread = @ \cup {id}]

\* index of the accumulator entry of a key, 0 when the key is absent
AccIndex(acc, side, exit) ==
  LET hits == {i \in 1 .. Len(acc) : acc[i].side = side /\ acc[i].exit = exit}
  IN IF hits = {} THEN 0 ELSE Min(hits)


(***************************************************************************)
(* StrategyEngine._process_buy_fill(order, event, fill_amount)             *)
(***************************************************************************)
ZeroAcc(acc, k) == [acc EXCEPT ![k].size = 0, ![k].total_entry_value = QInt(0)]

\* "Validate minimum shares": a lot below the minimum is not submitted
is_dust_never(sell_size) == FALSE
is_dust(sell_size) == sell_size < MIN_SHARES

\* "Only place sell when we have enough shares for this specific exit price"
reaches_min_lot_notional(acc_size, exit_price) ==
  acc_size * exit_price >= MIN_NOTIONAL
reaches_min_lot(acc_size, exit_price) == acc_size >= MIN_SHARES

\* "Add to pending queue": the lot whose placement failed waits for a retry
queue_for_retry_dropped(pending_sells_, pending) == pending_sells_
queue_for_retry(pending_sells_, pending) == Append(pending_sells_, pending)

process_buy_fill(w0, order, fill_amount, api) ==
  LET entry_price == order.price
      exit_price == get_exit_price(entry_price)
      actual_size == fill_amount
      key == <<order.side, exit_price>>
      position == [side |-> order.side, entry_price |-> entry_price,
                   size |-> actual_size]
      with_key(acc) ==
        IF AccIndex(acc, order.side, exit_price) = 0
        THEN Append(acc, [side |-> order.side, exit |-> exit_price,
                          size |-> 0, total_entry_value |-> QInt(0)])
        ELSE acc
      added(acc) ==
        LET k == AccIndex(acc, order.side, exit_price)
        IN [acc EXCEPT ![k].size = @ + actual_size,
                       ![k].total_entry_value =
                          QAdd(@, QMul(entry_price, actual_size))]
      submitted(w3, sell_size, avg_entry) ==
        IF w3.placed # 0
        THEN Notify([w3 EXCEPT !.sell_orders = Append(@,
                       [TrackedOrder(w3.placed, order.side, "SELL",
                                     QInt(exit_price), sell_size)
                        EXCEPT !.entry_price = avg_entry])],
                    "sell_placed")
        ELSE [w3 EXCEPT !.pending_sells = queue_for_retry(@,
                 [side |-> order.side, exit_price |-> QInt(exit_price),
                  size |-> sell_size, entry_price |-> avg_entry,
                  attempts |-> 1])]
      lot(w2, k, available_balance) ==
        LET acc == w2.fill_accumulator[k]
            avg_entry == QDiv(acc.total_entry_value, acc.size)
            sell_size == IF available_balance < acc.size
                         THEN available_balance ELSE acc.size
        IN IF available_balance < acc.size /\ available_balance <= 0
           THEN w2                      \* accumulator kept for a later fill
           ELSE IF is_dust(sell_size)
           THEN [w2 EXCEPT !.fill_accumulator = ZeroAcc(@, k)]
           ELSE submitted(
                  place_limit_order(
                    [w2 EXCEPT !.fill_accumulator = ZeroAcc(@, k),
                               !.obs.emitted[key] = @ + sell_size],
                    order.side, "SELL", QInt(exit_price), sell_size,
                    api, "tp", order.order_id),
                  sell_size, avg_entry)
      accumulated(w2) ==
        LET k == AccIndex(w2.fill_accumulator, order.side, exit_price)
        IN IF reaches_min_lot(w2.fill_accumulator[k].size, exit_price)
           THEN lot(w2, k, get_token_balance(w2, order.side, api)
                             - locked_in_sells(w2, order.side, api))
           ELSE w2
      recorded(w1) ==
        accumulated([w1 EXCEPT
                       !.fill_accumulator = added(with_key(@)),
                       !.obs.fed[order.order_id] = @ + fill_amount,
                       !.obs.filled[key] = @ + actual_size])
  IN recorded(Notify([w0 EXCEPT
               !.positions = Append(@, position),
               !.obs.npos[order.order_id] = @ + 1,
               !.results.fills_yes =
                  IF order.side = "YES" THEN Append(@, entry_price) ELSE @,
               !.results.fills_no =
                  IF order.side = "NO" THEN Append(@, entry_price) ELSE @],
               "buy_filled"))

(***************************************************************************)
(* StrategyEngine._process_sell_fill(order, event, is_stop_loss)           *)
(***************************************************************************)
\* the first position of the side whose entry matches, 0 when none does
MatchingPosition(ps, side, entry_price) ==
  LET hits == {i \in 1 .. Len(ps) :
                 ps[i].side = side /\ QNear(ps[i].entry_price, entry_price)}
  IN IF hits = {} THEN 0 ELSE Min(hits)

RemoveAt(s, i) == [j \in 1 .. Len(s) - 1 |-> IF j < i THEN s[j] ELSE s[j + 1]]

\* the first tracked order of `orders` that is the OCO sibling, 0 when none
OcoSibling(w, orders, side, entry_price) ==
  LET hits == {i \in 1 .. Len(orders) :
                 /\ orders[i].entry_price.n # 0
                 /\ QNear(orders[i].entry_price, entry_price)
                 /\ orders[i].side = side
                 /\ orders[i].order_id \notin w.known_filled}
  IN IF hits = {} THEN 0 ELSE Min(hits)

oco_cancel(w, orders, side, entry_price, api) ==
  LET i == OcoSibling(w, orders, side, entry_price)
  IN IF i = 0 THEN w
     ELSE [cancel_order(w, orders[i].order_id, api)
             EXCEPT !.known_filled = @ \cup {orders[i].order_id}]

process_sell_fill(w0, order, is_stop_loss, api) ==
  LET entry_price == order.entry_price
      pnl == QMul(QSub(order.price, entry_price), order.size)
      reloaded(w4) ==
        IF w4.placed # 0
        THEN [w4 EXCEPT !.buy_orders = Append(@,
                TrackedOrder(w4.placed, order.side, "BUY", entry_price,
                             order.size))]
        ELSE w4
      reload(w3) ==
        IF w3.states = "ACCUMULATING" /\ ~is_stop_loss
        THEN reloaded(place_limit_order(w3, order.side, "BUY", entry_price,
                                        order.size, api, "reload",
                                        order.order_id))
        ELSE w3
      closed(w2) ==
        LET p == MatchingPosition(w2.positions, order.side, entry_price)
        IN reload(Notify(IF p = 0 THEN w2
                         ELSE [w2 EXCEPT !.positions = RemoveAt(@, p)],
                         "sell_filled"))
      credited(w1) ==
        closed(IF needs_stop_loss(entry_price)
               THEN IF is_stop_loss
                    THEN oco_cancel(w1, w1.sell_orders, order.side,
                                    entry_price, api)
                    ELSE oco_cancel(w1, w1.stop_loss_orders, order.side,
                                    entry_price, api)
               ELSE w1)
  IN credited([w0 EXCEPT !.results.total_pnl = QAdd(@, pnl),
                         !.obs.credit[order.order_id] = QAdd(@, pnl),
                         !.obs.ncredit[order.order_id] = @ + 1])

(***************************************************************************)
(* StrategyEngine.check_fills(event, open_order_ids = None)                *)
(***************************************************************************)
\* sorted(active_buys, key = price, reverse = True): stable, as indexes
RECURSIVE InsertByPrice(_, _, _)
InsertByPrice(orders, sorted, i) ==
  IF sorted = <<>> THEN <<i>>
  ELSE IF QLess(orders[Head(sorted)].price, orders[i].price)
       THEN <<i>> \o sorted
       ELSE <<Head(sorted)>> \o InsertByPrice(orders, Tail(sorted), i)

RECURSIVE SortByPriceDesc(_, _, _)
SortByPriceDesc(orders, known, i) ==
  IF i = 0 THEN <<>>
  ELSE LET before == SortByPriceDesc(orders, known, i - 1)
       IN IF orders[i].order_id \in known THEN before
          ELSE InsertByPrice(orders, before, i)

\* the part of a cumulative size_matched that was not processed before
buy_delta_whole(size_matched, order) == size_matched
buy_delta(size_matched, order) == size_matched - order.processed_size

\* "Process any NEW fills": only a positive delta is a fill
is_new_fill_any(delta_fill) == delta_fill # 0
is_new_fill_or_none(delta_fill) == delta_fill >= 0
is_new_fill(delta_fill) == delta_fill > 0

\* what a successful status read of a buy showed, against processed_size
ReadSeen(w, i, size_matched) ==
  LET id == w.buy_orders[i].order_id
      processed_size == w.buy_orders[i].processed_size
  IN [w EXCEPT !.obs.seen[id] = Max(@, size_matched),
               !.obs.nread[id] =
                  IF size_matched > processed_size THEN @ + 1 ELSE @,
               !.obs.back[id] =
                  IF size_matched < processed_size THEN @ + 1 ELSE @]

check_buy(w, i, open_order_ids, api) ==
  LET order == w.buy_orders[i]
      id == order.order_id
      is_high_priority == QLeq(QInt(HIGH_PRIORITY), order.price)
      order_missing == id \notin open_order_ids
      size_matched == get_order_size_matched(w, id, api)
      status == w.ex[id].status
      api_original_size == w.ex[id].size
      delta_fill == buy_delta(size_matched, order)
      processed(w2) ==
        IF \/ size_matched >= api_original_size
           \/ status \in {"MATCHED", "CANCELLED"}
        THEN [w2 EXCEPT !.known_filled = @ \cup {id}]
        ELSE w2
      read(w1) ==
        IF size_matched > 0
        THEN processed(IF is_new_fill(delta_fill)
                       THEN [process_buy_fill(w1, order, delta_fill, api)
                               EXCEPT !.buy_orders[i].processed_size =
                                         size_matched]
                       ELSE w1)
        ELSE IF status \in {"CANCELLED", "INVALID", "EXPIRED", "REJECTED"}
        THEN [w1 EXCEPT !.known_filled = @ \cup {id}]
        ELSE w1
  IN IF ~(order_missing \/ is_high_priority) THEN w
     ELSE IF id \in api.noread
     THEN IF order.api_fail_count + 1 >= API_FAIL_ALERT
          THEN Notify([Unread(w, id) EXCEPT !.buy_orders[i].api_fail_count = 0],
                      "api_alert")
          ELSE [Unread(w, id) EXCEPT !.buy_orders[i].api_fail_count = @ + 1]
     ELSE read(ReadSeen([w EXCEPT !.buy_orders[i].api_fail_count = 0],
                        i, size_matched))

RECURSIVE check_buys(_, _, _, _)
check_buys(w, todo, open_order_ids, api) ==
  IF todo = <<>> THEN w
  ELSE check_buys(check_buy(w, Head(todo), open_order_ids, api),
                  Tail(todo), open_order_ids, api)

check_sell(w, i, open_order_ids, api) ==
  LET order == w.sell_orders[i]
      id == order.order_id
      size_matched == w.ex[id].matched
      original_size == w.ex[id].size
      status == w.ex[id].status
      processed(w2) ==
        IF size_matched >= original_size \/ status = "MATCHED"
        THEN [w2 EXCEPT !.known_filled = @ \cup {id}]
        ELSE w2
      resized(w1) ==
        processed(process_sell_fill(w1, w1.sell_orders[i], FALSE, api))
  IN IF id \in w.known_filled \/ id \in open_order_ids THEN w
     ELSE IF id \in api.noread THEN Unread(w, id)
     ELSE IF size_matched > 0
     THEN resized([w EXCEPT !.sell_orders[i].size = size_matched])
     ELSE IF status \in {"CANCELED", "CANCELLED", "INVALID", "EXPIRED",
                         "REJECTED"}
     THEN [w EXCEPT !.known_filled = @ \cup {id}]
     ELSE w

RECURSIVE check_sells(_, _, _, _, _)
check_sells(w, i, n, open_order_ids, api) ==
  IF i > n THEN w
  ELSE check_sells(check_sell(w, i, open_order_ids, api), i + 1, n,
                   open_order_ids, api)

(***************************************************************************)
(* StrategyEngine._check_stop_loss(event, open_order_ids)                  *)
(***************************************************************************)
\* cancel_order() reports a failure by returning False and never raises, so
\* the try block always ends with cancel_success = True.
cancel_success(w, id, api) == TRUE

stop_loss_one(w, i, open_order_ids, bids, api) ==
  LET order == w.sell_orders[i]
      id == order.order_id
      current_market_price == bids[order.side]
      dumped(w2) ==
        Notify(w2, IF w2.placed # 0 THEN "stop_loss_executed"
                   ELSE "stop_loss_failed")
      cancelled(w1) ==
        IF ~cancel_success(w, id, api) THEN w1
        ELSE dumped(place_limit_order(
                      [w1 EXCEPT !.known_filled = @ \cup {id}],
                      order.side, "SELL", QInt(DUMP_PRICE),
                      order.size, api, "dump", id))
  IN IF \/ id \in w.known_filled
        \/ id \notin open_order_ids
        \/ ~needs_stop_loss(order.entry_price)
        \/ current_market_price < SPAM_FLOOR
        \/ current_market_price > STOP_LOSS_PRICE
     THEN w
     ELSE cancelled(cancel_order(w, id, api))

RECURSIVE check_stop_loss_from(_, _, _, _, _)
check_stop_loss_from(w, i, open_order_ids, bids, api) ==
  IF i > Len(w.sell_orders) THEN w
  ELSE check_stop_loss_from(stop_loss_one(w, i, open_order_ids, bids, api),
                            i + 1, open_order_ids, bids, api)

check_stop_loss(w, open_order_ids, bids, api) ==
  check_stop_loss_from(w, 1, open_order_ids, bids, api)

check_fills(w, bids, api) ==
  IF w.states = "NONE" THEN w
  ELSE
    LET open_order_ids == get_open_orders(w, api)
        active_buys_sorted ==
          SortByPriceDesc(w.buy_orders, w.known_filled, Len(w.buy_orders))
        sells(w1) ==
          check_sells(w1, 1, Len(w1.sell_orders), open_order_ids, api)
    IN check_stop_loss(
         sells(check_buys(w, active_buys_sorted, open_order_ids, api)),
         open_order_ids, bids, api)

(***************************************************************************)
(* StrategyEngine.audit_cancelled_orders(order_ids, event)                 *)
(***************************************************************************)
audit_one(w, i, order_ids, api) ==
  LET order == w.buy_orders[i]
      id == order.order_id
      size_matched == get_order_size_matched(w, id, api)
      original_size == w.ex[id].size
      delta_fill == size_matched - order.processed_size
      audited(w1) ==
        IF size_matched >= original_size
        THEN [w1 EXCEPT !.known_filled = @ \cup {id}]
        ELSE w1
      read(w0) ==
        audited(IF is_new_fill(delta_fill)
                THEN [process_buy_fill(w0, order, delta_fill, api)
                        EXCEPT !.buy_orders[i].processed_size = size_matched]
                ELSE w0)
  IN IF id \notin order_ids THEN w
     ELSE IF id \in api.noread THEN Unread(w, id)
     ELSE IF size_matched <= 0 THEN w
     ELSE read(ReadSeen(w, i, size_matched))

RECURSIVE audit_from(_, _, _, _, _)
audit_from(w, i, n, order_ids, api) ==
  IF i > n THEN w
  ELSE audit_from(audit_one(w, i, order_ids, api), i + 1, n, order_ids, api)

audit_cancelled_orders(w, order_ids, api) ==
  IF order_ids = {} THEN w
  ELSE audit_from(w, 1, Len(w.buy_orders), order_ids, api)

(***************************************************************************)
(* StrategyEngine._flush_accumulator_for_event(event)                      *)
(***************************************************************************)
flush_one(w, k, api) ==
  LET acc == w.fill_accumulator[k]
      avg_entry == QDiv(acc.total_entry_value, acc.size)
      actual_balance == get_token_balance(w, acc.side, api)
      available_balance == actual_balance - locked_in_sells(w, acc.side, api)
      sell_size == IF available_balance < acc.size
                   THEN available_balance ELSE acc.size
      cleared == [w EXCEPT !.fill_accumulator = ZeroAcc(@, k)]
  IN IF acc.size <= 0 THEN w
     ELSE IF acc.size < MIN_SHARES THEN Notify(cleared, "dust_locked")
     ELSE IF available_balance < acc.size /\ available_balance <= 0
     THEN cleared
     ELSE IF sell_size < MIN_SHARES THEN cleared
     ELSE [cleared EXCEPT !.pending_sells = Append(@,
             [side |-> acc.side, exit_price |-> QInt(acc.exit),
              size |-> sell_size, entry_price |-> avg_entry,
              attempts |-> 0]),
             !.obs.emitted[<<acc.side, acc.exit>>] = @ + sell_size]

RECURSIVE flush_from(_, _, _, _)
flush_from(w, k, n, api) ==
  IF k > n THEN w ELSE flush_from(flush_one(w, k, api), k + 1, n, api)

flush_accumulator_for_event(w, api) ==
  flush_from(w, 1, Len(w.fill_accumulator), api)

(***************************************************************************)
(* PolymarketClient.cancel_orders_batch and                                *)
(* StrategyEngine.transition_to_live(event)                                *)
(***************************************************************************)
cancel_orders_batch(w, order_ids, api) ==
  LET hit == {i \in order_ids : cancel_ok(w, i, api)}
  IN [w EXCEPT !.ex = [i \in Ids |-> IF i \in hit
                                     THEN [w.ex[i] EXCEPT !.status = "CANCELED"]
                                     ELSE w.ex[i]],
               !.ret = Cardinality(hit)]

TrackedIds(orders) == {orders[i].order_id : i \in 1 .. Len(orders)}

\* the race audit of the ids sent for cancellation, then the flush
flush_then_audit(w, order_ids, api) ==
  audit_cancelled_orders(flush_accumulator_for_event(w, api), order_ids, api)
audit_then_flush(w, order_ids, api) ==
  flush_accumulator_for_event(audit_cancelled_orders(w, order_ids, api), api)

\* "Collect all unfilled buy order IDs for batch cancellation"
order_ids_to_cancel_known_too(w) == TrackedIds(w.buy_orders)
order_ids_to_cancel(w) == TrackedIds(w.buy_orders) \ w.known_filled

transition_to_live(w, api) ==
  IF w.states # "ACCUMULATING" THEN [w EXCEPT !.ret = 0]
  ELSE
    LET cancelled == cancel_orders_batch(w, order_ids_to_cancel(w), api)
    IN Notify([audit_then_flush(cancelled, order_ids_to_cancel(w), api)
                 EXCEPT !.states = "EXITING", !.ret = cancelled.ret],
              "phase_transition")

(***************************************************************************)
(* StrategyEngine.check_completion(event, cached_open_ids = None)          *)
(***************************************************************************)
\* first pass: a sell that left the open list is read and either processed
\* as filled or collected as disappeared; both mark it terminally known
completion_one(w, i, open_ids, api) ==
  LET o == w.sell_orders[i]
      id == o.order_id
      size_matched == w.ex[id].matched
      filled(w1) ==
        [process_sell_fill(w1, w1.sell_orders[i], FALSE, api)
           EXCEPT !.known_filled = @ \cup {id}]
  IN IF id \in w.known_filled \/ id \in open_ids THEN w
     ELSE IF id \notin api.noread /\ size_matched > 0
     THEN filled([w EXCEPT !.sell_orders[i].size = size_matched])
     ELSE [(IF id \in api.noread THEN Unread(w, id) ELSE w)
             EXCEPT !.known_filled = @ \cup {id}, !.ret = Append(@, i)]

RECURSIVE completion_from(_, _, _, _, _)
completion_from(w, i, n, open_ids, api) ==
  IF i > n THEN w
  ELSE completion_from(completion_one(w, i, open_ids, api), i + 1, n,
                       open_ids, api)

\* second pass: a disappeared sell whose tokens are still held is re-queued
RECURSIVE requeue_disappeared(_, _, _)
requeue_disappeared(w, disappeared, api) ==
  IF disappeared = <<>> THEN w
  ELSE
    LET sell_order == w.sell_orders[Head(disappeared)]
        actual_balance == get_token_balance(w, sell_order.side, api)
    IN requeue_disappeared(
         IF 100 * actual_balance >= 99 * sell_order.size
         THEN [w EXCEPT !.pending_sells = Append(@,
                 [side |-> sell_order.side,
                  exit_price |-> sell_order.price,
                  size |-> actual_balance,
                  entry_price |-> sell_order.entry_price,
                  attempts |-> 0]),
               !.placed = @ + 1]
         ELSE w,
         Tail(disappeared), api)

check_completion(w, api) ==
  IF w.states # "EXITING" THEN [w EXCEPT !.ret = FALSE]
  ELSE
    LET open_ids == get_open_orders(w, api)
        pending == {i \in 1 .. Len(w.sell_orders) :
                      /\ w.sell_orders[i].order_id \notin w.known_filled
                      /\ w.sell_orders[i].order_id \in open_ids}
        has_pending_stops(w2) ==
          \E j \in 1 .. Len(w2.stop_loss_orders) :
             /\ w2.stop_loss_orders[j].order_id \notin w2.known_filled
             /\ w2.stop_loss_orders[j].order_id \in open_ids
        decided(w2) ==
          IF pending = {} /\ ~has_pending_stops(w2)
          THEN Notify([w2 EXCEPT !.states = "COMPLETED",
                                 !.results.ended = TRUE, !.ret = TRUE],
                      "cycle_report")
          ELSE [w2 EXCEPT !.ret = FALSE]
        alerted(r) ==
          Notify(r, IF r.placed > 0 THEN "recovery" ELSE "sells_lost")
        verified(w1) ==
          decided(IF w1.ret = <<>> THEN w1
                  ELSE alerted(requeue_disappeared(
                                 [w1 EXCEPT !.placed = 0], w1.ret, api)))
    IN verified(completion_from([w EXCEPT !.ret = <<>>], 1,
                                Len(w.sell_orders), open_ids, api))

(***************************************************************************)
(* StrategyEngine.process_pending_sells()                                  *)
(***************************************************************************)
\* an open SELL of the token at the pending entry's exit price
existing_sell_any_price(w, pending, api) ==
  \E i \in get_open_orders(w, api) :
     w.ex[i].side = pending.side /\ w.ex[i].typ = "SELL"
existing_sell(w, pending, api) ==
  \E i \in get_open_orders(w, api) :
     /\ w.ex[i].side = pending.side /\ w.ex[i].typ = "SELL"
     /\ QNear(w.ex[i].price, pending.exit_price)

\* "SELL retry n/10": an entry the balance covers is kept for ten attempts
retry_allowed_once_more(attempts) == attempts <= 11
retry_allowed(attempts) == attempts <= 10

\* "Balance adjustment": the entry is cut to the available balance
adjusted_keeps_attempts(tried, available_balance) ==
  [tried EXCEPT !.size = available_balance]
adjusted(tried, available_balance) ==
  [tried EXCEPT !.size = available_balance, !.attempts = 0]

\* "Still failing - increment attempts"
still_failing_uncounted(pending) == pending
still_failing(pending) == [pending EXCEPT !.attempts = @ + 1]

\* one queue entry: the world after it, with w.ret the entries kept so far
retry_pending(w, pending, api) ==
  LET tried == still_failing(pending)
      reconciled(w1, actual_balance, available_balance) ==
        IF available_balance <= 0
        THEN IF existing_sell(w1, pending, api) THEN w1
             ELSE IF tried.attempts <= 5
                  THEN [w1 EXCEPT !.ret = Append(@, tried)] ELSE w1
        ELSE IF actual_balance = 0
        THEN IF tried.attempts <= 60
             THEN [w1 EXCEPT !.ret = Append(@, tried)]
             ELSE Notify(w1, "settlement_timeout")
        ELSE IF available_balance < pending.size
        THEN IF available_balance < MIN_SHARES THEN w1
             ELSE [w1 EXCEPT !.ret =
                     Append(@, adjusted(tried, available_balance))]
        ELSE IF retry_allowed(tried.attempts)
             THEN [w1 EXCEPT !.ret = Append(@, tried)]
             ELSE Notify(w1, "sell_gave_up")
      submitted(w1) ==
        IF w1.placed # 0
        THEN Notify([w1 EXCEPT !.sell_orders = Append(@,
                       [TrackedOrder(w1.placed, pending.side, "SELL",
                                     pending.exit_price, pending.size)
                        EXCEPT !.entry_price = pending.entry_price])],
                    "sell_placed")
        ELSE reconciled(w1, get_token_balance(w1, pending.side, api),
                        get_token_balance(w1, pending.side, api)
                          - locked_in_sells(w1, pending.side, api))
  IN IF pending.size < MIN_SHARES THEN w
     ELSE submitted(place_limit_order(w, pending.side, "SELL",
                                      pending.exit_price, pending.size,
                                      api, "pending", 0))

RECURSIVE retry_all(_, _, _)
retry_all(w, queue, api) ==
  IF queue = <<>> THEN w
  ELSE retry_all(retry_pending(w, Head(queue), api), Tail(queue), api)

process_pending_sells(w, api) ==
  LET kept(w1) == [w1 EXCEPT !.pending_sells = w1.ret, !.ret = 0]
  IN IF w.pending_sells = <<>> THEN w
     ELSE kept(retry_all([w EXCEPT !.ret = <<>>], w.pending_sells, api))

(***************************************************************************)
(* StrategyEngine.initialize_event(event)                                  *)
(***************************************************************************)
\* state recovery: every open order of the event becomes a tracked order
RECURSIVE adopt_from(_, _, _)
adopt_from(w, i, relevant_orders) ==
  IF i > MaxOrders THEN w
  ELSE IF i \notin relevant_orders THEN adopt_from(w, i + 1, relevant_orders)
  ELSE LET o == w.ex[i]
           tracked == TrackedOrder(i, o.side, o.typ, o.price, o.size)
       IN adopt_from(
            [w EXCEPT !.buy_orders =
                         IF o.typ = "BUY" THEN Append(@, tracked) ELSE @,
                      !.sell_orders =
                         IF o.typ = "BUY" THEN @ ELSE Append(@, tracked),
                      !.ret = @ + 1],
            i + 1, relevant_orders)

\* the ladder: YES then NO, each over LADDER_LEVELS in order
LadderPlan ==
  [i \in 1 .. 2 * Len(LADDER_LEVELS) |->
     IF i <= Len(LADDER_LEVELS)
     THEN <<"YES", LADDER_LEVELS[i]>>
     ELSE <<"NO", LADDER_LEVELS[i - Len(LADDER_LEVELS)]>>]

\* orders_placed counts the rungs for which place_limit_order gave an order
count_if_placed_always(orders_placed, order) == orders_placed + 1
count_if_placed(orders_placed, order) ==
  IF order # 0 THEN orders_placed + 1 ELSE orders_placed

RECURSIVE place_ladder(_, _, _, _)
place_ladder(w, i, api, accepted) ==
  IF i > Len(LadderPlan) THEN w
  ELSE
    LET side == LadderPlan[i][1]
        price == LadderPlan[i][2]
        tracked(w1) ==
          IF w1.placed # 0
          THEN [w1 EXCEPT !.buy_orders = Append(@,
                  TrackedOrder(w1.placed, side, "BUY", QInt(price),
                               ORDER_SIZE)),
                !.ret = count_if_placed(@, w1.placed)]
          ELSE [w1 EXCEPT !.ret = count_if_placed(@, w1.placed)]
    IN place_ladder(
         tracked(place_limit_order(
                   w, side, "BUY", QInt(price), ORDER_SIZE,
                   [api EXCEPT !.place = @ /\ LadderPlan[i] \in accepted],
                   "ladder", 0)),
         i + 1, api, accepted)

\* the defensive check: LIVE and ENDED events are rejected
rejects_phase_never(event_phase) == FALSE
rejects_phase(event_phase) == event_phase # "PRE_MARKET"

initialize_event(w, event_phase, api, accepted) ==
  IF w.states # "NONE" THEN [w EXCEPT !.ret = 0]
  ELSE IF rejects_phase(event_phase) THEN [w EXCEPT !.ret = 0]
  ELSE
    LET w1 == [w EXCEPT !.states = "ACCUMULATING", !.positions = <<>>,
                        !.results = EmptyResult, !.buy_orders = <<>>,
                        !.sell_orders = <<>>, !.stop_loss_orders = <<>>,
                        !.ret = 0]
        relevant_orders == get_open_orders(w1, api)
    IN IF relevant_orders # {}
       THEN Notify(adopt_from(w1, 1, relevant_orders), "recovered")
       ELSE Notify(place_ladder(w1, 1, api, accepted), "ladder_placed")


(***************************************************************************)
(* The engine's calls as actions.  The orchestrator (src/main.py) makes    *)
(* them once per tick; the exchange moves between any two of them.         *)
(***************************************************************************)
Degraded(api) == api # ApiUp

\* the run is followed until some sell has been credited MaxCredits times
Polling == \A i \in Ids : obs.ncredit[i] < MaxCredits

ApiBudget(api) ==
  /\ Degraded(api) => nfail < MaxApiFails
  /\ nfail' = IF Degraded(api) THEN nfail + 1 ELSE nfail

\* the state after an engine call that ended in the world v
Apply(v, op) ==
  \E w \in {v} :
     /\ states' = w.states
     /\ positions' = w.positions
     /\ results' = w.results
     /\ buy_orders' = w.buy_orders
     /\ sell_orders' = w.sell_orders
     /\ stop_loss_orders' = w.stop_loss_orders
     /\ known_filled' = w.known_filled
     /\ pending_sells' = w.pending_sells
     /\ fill_accumulator' = w.fill_accumulator
     /\ ex' = w.ex
     /\ obs' = w.obs
     /\ last' = [op |-> op, ret |-> w.ret, notes |-> w.notes,
                 unread |-> w.unread, rejected |-> w.rejected,
                 armed |-> w.armed]
     /\ UNCHANGED <<bal, unsettled, nfills, nrestart, ncancel>>

\* an engine call made outside the orchestrator's loop
Commit(w, op) == Apply(w, op) /\ UNCHANGED <<phase, pc, run>>

LadderOutcomes == {a \in SUBSET AcceptedRungs : Cardinality(a) <= MaxLadder}

\* returns 0 at once for an event that is already initialized
InitializeEvent ==
  \E api \in ApiInputs, accepted \in LadderOutcomes :
     /\ states = "NONE"
     /\ ApiBudget(api)
     /\ Commit(initialize_event(World, phase, api, accepted),
               "initialize_event")

\* main.py calls check_fills for every active event; the call returns at once
\* for an event the engine has not initialized
CheckFills ==
  \E api \in ApiInputs, bids \in [Sides -> BidLevels] :
     /\ states # "NONE"
     /\ Polling
     /\ ApiBudget(api)
     /\ Commit(check_fills(World, bids, api), "check_fills")

\* returns at once when the queue is empty
ProcessPendingSells ==
  \E api \in ApiInputs :
     /\ pending_sells # <<>>
     /\ ApiBudget(api)
     /\ Commit(process_pending_sells(World, api), "process_pending_sells")

\* main.py calls transition_to_live for the events update_phases() reports,
\* initialized or not; the call returns 0 at once, without any API call,
\* unless the state is ACCUMULATING
TransitionToLive ==
  \E api \in ApiInputs :
     /\ phase = "LIVE"
     /\ states \in {"NONE", "ACCUMULATING"}
     /\ states = "NONE" => api = ApiUp
     /\ ApiBudget(api)
     /\ Commit(transition_to_live(World, api), "transition_to_live")

\* returns False at once unless the state is EXITING
CheckCompletion ==
  \E api \in ApiInputs :
     /\ states = "EXITING"
     /\ Polling
     /\ ApiBudget(api)
     /\ Commit(check_completion(World, api), "check_completion")

(***************************************************************************)
(* The environment: the clock, the exchange's matching engine, settlement, *)
(* and the process supervisor.                                             *)
(***************************************************************************)
EnvLast == [op |-> "environment", ret |-> 0, notes |-> <<>>, unread |-> {},
            rejected |-> {}, armed |-> {}]

\* EventContext.update_phase: the start time passes
GoLive ==
  /\ phase = "PRE_MARKET"
  /\ phase' = "LIVE"
  /\ last' = EnvLast
  /\ UNCHANGED <<engineVars, ex, bal, unsettled, obs, pc, run,
                 nfills, nfail, nrestart, ncancel>>

\* the matching engine fills a live order up to a cumulative size m
ExchangeFillTo(levels) ==
  \E id \in Ids, settled \in BOOLEAN :
   \E m \in levels \cup {ex[id].size} :
     /\ nfills < MaxFills
     /\ ex[id].status = "LIVE"
     /\ ex[id].matched < m /\ m <= ex[id].size
     /\ LET o == ex[id]
            delta == m - o.matched
        IN /\ ex' = [ex EXCEPT ![id].matched = m,
                               ![id].status =
                                  IF m = o.size THEN "MATCHED" ELSE "LIVE"]
           /\ IF o.typ = "BUY"
              THEN IF settled
                   THEN /\ bal' = [bal EXCEPT ![o.side] = @ + delta]
                        /\ UNCHANGED unsettled
                   ELSE /\ unsettled' = [unsettled EXCEPT ![o.side] = @ + delta]
                        /\ UNCHANGED bal
              ELSE /\ settled
                   /\ bal' = [bal EXCEPT ![o.side] = @ - delta]
                   /\ UNCHANGED unsettled
     /\ nfills' = nfills + 1
     /\ last' = EnvLast
     /\ UNCHANGED <<engineVars, phase, obs, pc, run,
                    nfail, nrestart, ncancel>>

ExchangeFill == ExchangeFillTo(FillLevels)

\* bought shares become visible in the token balance
Settle ==
  \E side \in Sides :
     /\ unsettled[side] > 0
     /\ bal' = [bal EXCEPT ![side] = @ + unsettled[side]]
     /\ unsettled' = [unsettled EXCEPT ![side] = 0]
     /\ last' = EnvLast
     /\ UNCHANGED <<engineVars, phase, ex, obs, pc, run,
                    nfills, nfail, nrestart, ncancel>>

CancelSpellings == {"CANCELED", "CANCELLED"}

\* the exchange cancels a live order on its own (resolution, expiry)
ExchangeCancel ==
  \E id \in Ids, status \in CancelSpellings :
     /\ ncancel < MaxCancels
     /\ ex[id].status = "LIVE"
     /\ ex' = [ex EXCEPT ![id].status = status]
     /\ ncancel' = ncancel + 1
     /\ last' = EnvLast
     /\ UNCHANGED <<engineVars, phase, bal, unsettled, obs, pc, run,
                    nfills, nfail, nrestart>>

\* the process is restarted: a fresh StrategyEngine, the same exchange
Restart ==
  /\ nrestart < MaxRestarts
  /\ states # "NONE"
  /\ states' = "NONE"
  /\ positions' = <<>>
  /\ results' = EmptyResult
  /\ buy_orders' = <<>>
  /\ sell_orders' = <<>>
  /\ stop_loss_orders' = <<>>
  /\ known_filled' = {}
  /\ pending_sells' = <<>>
  /\ fill_accumulator' = <<>>
  /\ obs' = [NoObs EXCEPT !.subm = obs.subm]
  /\ nrestart' = nrestart + 1
  /\ last' = [op |-> "restart", ret |-> 0, notes |-> <<>>, unread |-> {},
              rejected |-> {}, armed |-> {}]
  /\ UNCHANGED <<phase, ex, bal, unsettled, pc, run,
                 nfills, nfail, ncancel>>

\* ProductionBot.__init__: run() not yet entered, the scanner tracks nothing
NotRun == [running |-> FALSE, active |-> FALSE, cancel_alls |-> 0,
           done |-> <<>>, ended |-> "no"]

\* StrategyEngine.__init__ against an exchange that holds nothing yet
Init ==
  /\ states = "NONE"
  /\ positions = <<>>
  /\ results = EmptyResult
  /\ buy_orders = <<>>
  /\ sell_orders = <<>>
  /\ stop_loss_orders = <<>>
  /\ known_filled = {}
  /\ pending_sells = <<>>
  /\ fill_accumulator = <<>>
  /\ phase = "PRE_MARKET"
  /\ ex = [i \in Ids |-> NoOrder]
  /\ bal = [s \in Sides |-> 0]
  /\ unsettled = [s \in Sides |-> 0]
  /\ obs = NoObs
  /\ last = EnvLast
  /\ pc = "start"
  /\ run = NotRun
  /\ nfills = 0 /\ nfail = 0 /\ nrestart = 0 /\ ncancel = 0

Next ==
  \/ InitializeEvent
  \/ CheckFills
  \/ ProcessPendingSells
  \/ TransitionToLive
  \/ CheckCompletion
  \/ GoLive
  \/ ExchangeFill
  \/ Settle
  \/ ExchangeCancel

Spec == Init /\ [][Next]_vars

\* Runs in which the process is restarted before the event goes live.
NextRestart ==
  \/ InitializeEvent
  \/ CheckFills
  \/ ExchangeFill
  \/ Settle
  \/ Restart

SpecRestart == Init /\ [][NextRestart]_vars

\* Runs in which the order-status endpoint may lag behind the matching
\* engine, so that a read can show less than an earlier read did.
LaggingInputs == ApiInputs \cup {[ApiUp EXCEPT !.stale = TRUE]}

CheckFillsLagging ==
  \E api \in LaggingInputs, bids \in [Sides -> BidLevels] :
     /\ states # "NONE"
     /\ Polling
     /\ ApiBudget(api)
     /\ Commit(check_fills(World, bids, api), "check_fills")

TransitionToLiveLagging ==
  \E api \in LaggingInputs :
     /\ phase = "LIVE"
     /\ states = "ACCUMULATING"
     /\ ApiBudget(api)
     /\ Commit(transition_to_live(World, api), "transition_to_live")

NextLagging ==
  \/ InitializeEvent
  \/ CheckFillsLagging
  \/ TransitionToLiveLagging
  \/ GoLive
  \/ ExchangeFill
  \/ Settle

SpecLagging == Init /\ [][NextLagging]_vars

\* Runs in which the bids that main.py refreshed before each check_fills
\* call are followed: last.armed holds the outcomes whose best bid lies
\* between the spam floor and the stop-loss price.
Armed(bids) == {side \in Sides : /\ bids[side] >= SPAM_FLOOR
                                 /\ bids[side] <= STOP_LOSS_PRICE}

CheckFillsWatched ==
  \E api \in ApiInputs, bids \in [Sides -> BidLevels] :
     /\ states # "NONE"
     /\ Polling
     /\ ApiBudget(api)
     /\ Commit([check_fills(World, bids, api) EXCEPT !.armed = Armed(bids)],
               "check_fills")

NextStopLoss ==
  \/ InitializeEvent
  \/ CheckFillsWatched
  \/ ExchangeFill
  \/ Settle
  \/ ExchangeCancel

SpecStopLoss == Init /\ [][NextStopLoss]_vars

\* Runs in which the matching engine leaves an odd lot: a sell matched for
\* half of its size, so that fewer shares than the minimum lot can remain.
OddLevels == {5, 10}
ExchangeFillOdd == ExchangeFillTo(OddLevels)

NextOddLot ==
  \/ InitializeEvent
  \/ CheckFills
  \/ ProcessPendingSells
  \/ TransitionToLive
  \/ CheckCompletion
  \/ GoLive
  \/ ExchangeFillOdd
  \/ ExchangeCancel

SpecOddLot == Init /\ [][NextOddLot]_vars

(***************************************************************************)
(* ProductionBot.run() (src/main.py) with the EventScanner for the event:  *)
(* pc is the statement the loop stands at, run.active whether the slug is  *)
(* in EventScanner._active_events, run.done the work of the current tick   *)
(* in the order it ran, run.cancel_alls the calls of                       *)
(* client.cancel_all_orders().                                             *)
(***************************************************************************)
\* what the API answers during the calls of a run
RunApis == {ApiUp, [ApiUp EXCEPT !.place = FALSE]}

TickPcs == {"first_scan", "scan", "phases", "fills", "completion", "pending",
            "heartbeat", "sleep"}

\* PolymarketClient.cancel_all_orders(): every live order, or nothing
cancel_all_orders(w, api) ==
  LET hit == {i \in Ids : w.ex[i].status = "LIVE" /\ api.cancel}
  IN [w EXCEPT !.ex = [i \in Ids |-> IF i \in hit
                                     THEN [w.ex[i] EXCEPT !.status = "CANCELED"]
                                     ELSE w.ex[i]],
               !.ret = Cardinality(hit)]

\* ProductionBot.stop()
stop(r) == [r EXCEPT !.running = FALSE, !.cancel_alls = @ + 1]

RunOnly == UNCHANGED <<engineVars, phase, ex, bal, unsettled, obs,
                       nfills, nfail, nrestart, ncancel>>

\* run() calls start(): a failed connection sends the error and run() returns
BotStart ==
  \E connected \in BOOLEAN :
     /\ pc = "start"
     /\ pc' = IF connected THEN "first_scan" ELSE "returned"
     /\ run' = IF connected THEN [run EXCEPT !.running = TRUE]
               ELSE [run EXCEPT !.ended = "startup"]
     /\ last' = [EnvLast EXCEPT !.op = "start",
                                !.notes = IF connected THEN <<"startup">>
                                          ELSE <<"error">>]
     /\ RunOnly

\* the scan when it is due (always on the first tick): a slug not yet tracked
\* is fetched, gets its phase from the clock, and only a PRE_MARKET event is
\* handed to initialize_event
Scan ==
  \E due, found \in BOOLEAN, clock \in {phase, "LIVE"},
     api \in RunApis, accepted \in LadderOutcomes :
     /\ pc \in {"first_scan", "scan"}
     /\ pc = "first_scan" => due
     /\ pc' = "phases"
     /\ ApiBudget(api)
     /\ IF due /\ ~run.active /\ found
        THEN /\ phase' = clock
             /\ clock # "PRE_MARKET" => api = ApiUp /\ accepted = {}
             /\ Apply(IF clock = "PRE_MARKET"
                      THEN initialize_event(Notify(World, "event_discovered"),
                                            clock, api, accepted)
                      ELSE Notify(World, "event_discovered"), "scan")
             /\ run' = [run EXCEPT !.active = TRUE, !.done = <<"scan">>]
        ELSE /\ ~found /\ clock = phase /\ api = ApiUp /\ accepted = {}
             /\ UNCHANGED phase
             /\ Apply(World, "scan")
             /\ run' = [run EXCEPT !.done = IF due THEN <<"scan">> ELSE <<>>]

\* update_phases(): an event whose start time has passed goes LIVE and is
\* handed to transition_to_live
UpdatePhases ==
  \E passes \in BOOLEAN, api \in RunApis :
     /\ pc = "phases"
     /\ ApiBudget(api)
     /\ IF run.active /\ phase = "PRE_MARKET" /\ passes
        THEN /\ phase' = "LIVE"
             /\ Apply(transition_to_live(World, api), "transition_to_live")
        ELSE /\ ~passes /\ api = ApiUp
             /\ UNCHANGED phase
             /\ Apply(World, "update_phases")
     /\ pc' = IF run.active THEN "fills" ELSE "pending"
     /\ run' = [run EXCEPT !.done = Append(@, "phase_update")]

\* the active event's bids are refreshed and check_fills runs, the stop-loss
\* monitor at its end
TickFills ==
  \E api \in RunApis, bids \in [Sides -> BidLevels] :
     /\ pc = "fills"
     /\ Polling
     /\ ApiBudget(api)
     /\ states = "NONE" => api = ApiUp /\ bids = [s \in Sides |-> 0]
     /\ Apply(check_fills(World, bids, api), "check_fills")
     /\ UNCHANGED phase
     /\ pc' = "completion"
     /\ run' = [run EXCEPT !.done = @ \o <<"fills", "stop_loss">>]

\* check_completion, and remove_event when it answers True
TickCompletion ==
  \E api \in RunApis :
     /\ pc = "completion"
     /\ pc' = "pending"
     /\ Polling
     /\ ApiBudget(api)
     /\ states # "EXITING" => api = ApiUp
     /\ LET removed(w) ==
              /\ Apply([w EXCEPT !.ret = IF w.ret THEN 1 ELSE 0],
                       "check_completion")
              /\ run' = [run EXCEPT !.active = ~w.ret,
                                    !.done = Append(@, "completion")]
        IN removed(check_completion(World, api))
     /\ UNCHANGED phase

\* process_pending_sells, once per tick after the loop over the events
TickPending ==
  \E api \in RunApis :
     /\ pc = "pending"
     /\ ApiBudget(api)
     /\ pending_sells = <<>> => api = ApiUp
     /\ Apply(process_pending_sells(World, api), "process_pending_sells")
     /\ UNCHANGED phase
     /\ pc' = "heartbeat"
     /\ run' = [run EXCEPT !.done = Append(@, "pending_retry")]

\* the heartbeat when it is due, then the sleep
Heartbeat ==
  \E due \in BOOLEAN :
     /\ pc = "heartbeat"
     /\ pc' = "sleep"
     /\ run' = [run EXCEPT !.done = IF due THEN Append(@, "heartbeat") ELSE @]
     /\ last' = [EnvLast EXCEPT !.op = "heartbeat"]
     /\ RunOnly

\* `while self._running`: the next tick
Wake ==
  /\ pc = "sleep" /\ run.running
  /\ pc' = "scan"
  /\ run' = [run EXCEPT !.done = <<>>]
  /\ last' = [EnvLast EXCEPT !.op = "wake"]
  /\ RunOnly

\* the way out of run(): `finally: await self.stop()`
Finally(how, api) ==
  /\ ApiBudget(api)
  /\ Apply(IF how = "exception"
           THEN cancel_all_orders(Notify(World, "error"), api)
           ELSE cancel_all_orders(World, api), "stop")
  /\ UNCHANGED phase
  /\ pc' = "returned"
  /\ run' = [stop(run) EXCEPT !.ended = how]

\* stop() is called from outside while the loop sleeps
StopCalled ==
  \E api \in RunApis :
     /\ pc = "sleep" /\ run.running
     /\ ApiBudget(api)
     /\ Apply(cancel_all_orders(World, api), "stop")
     /\ UNCHANGED <<phase, pc>>
     /\ run' = stop(run)

\* the loop finds _running false
LoopStopped ==
  \E api \in RunApis :
     /\ pc = "sleep" /\ ~run.running
     /\ Finally("stopped", api)

\* the task is cancelled while it sleeps
TaskCancelled ==
  \E api \in RunApis :
     /\ pc = "sleep" /\ run.running
     /\ Finally("cancelled", api)

\* a statement of the tick raises
TickRaises ==
  \E api \in RunApis :
     /\ pc \in TickPcs \ {"sleep"}
     /\ Finally("exception", api)

NextRun ==
  \/ BotStart
  \/ Scan
  \/ UpdatePhases
  \/ TickFills
  \/ TickCompletion
  \/ TickPending
  \/ Heartbeat
  \/ Wake
  \/ StopCalled
  \/ LoopStopped
  \/ TaskCancelled
  \/ TickRaises
  \/ ExchangeFill
  \/ Settle
  \/ ExchangeCancel

SpecRun == Init /\ [][NextRun]_vars

\* Runs that nothing ends and in which the loop keeps ticking.
NextScan ==
  \/ BotStart
  \/ Scan
  \/ UpdatePhases
  \/ TickFills
  \/ TickCompletion
  \/ TickPending
  \/ Heartbeat
  \/ Wake
  \/ ExchangeFill

\* the loop does not stay at one statement for ever: every call it makes
\* returns and the sleep ends
Ticking == pc \in TickPcs /\ pc' \in TickPcs /\ pc' # pc

SpecScanFair == Init /\ [][NextScan]_vars /\ WF_pc(Ticking)

(***************************************************************************)
(* Properties.                                                             *)
(***************************************************************************)
LiveIds == {i \in Ids : ex[i].status = "LIVE"}

\* C1: for every tracked BUY order, after any sequence of successful status
\* reads of it (check_fills and the audit of the LIVE transition),
\* processed_size equals the largest size_matched a read returned, and the
\* deltas handed to _process_buy_fill for the order sum to that maximum.
C1_MonotonicFillAccounting ==
  \A i \in 1 .. Len(buy_orders) :
     LET id == buy_orders[i].order_id
     IN /\ buy_orders[i].processed_size = obs.seen[id]
        /\ obs.fed[id] = obs.seen[id]

\* a buy whose fill was read in two steps, a partial one and the full one
C1_TwoReadsOfOneBuy ==
  \E i \in 1 .. Len(buy_orders) :
     /\ buy_orders[i].processed_size = ORDER_SIZE
     /\ obs.fed[buy_orders[i].order_id] = ORDER_SIZE
     /\ Len(results.fills_yes) + Len(results.fills_no) >= 2

\* C2: for every tracked sell order, whatever reads check_fills and
\* check_completion made of it, the PnL credited for it is
\* (sell price - entry price) x m for a number m of shares that the exchange
\* has matched of it: each filled share is credited once, and a later read
\* credits only the newly filled delta.
C2_SellPnlCreditedOnce ==
  \A i \in 1 .. Len(sell_orders) :
     LET o == sell_orders[i]
         id == o.order_id
         per_share == QSub(ex[id].price, o.entry_price)
     IN \E m \in 0 .. ex[id].matched : obs.credit[id] = QMul(per_share, m)

SellMeetsMinimums(s) ==
  /\ s.size >= MIN_SHARES
  /\ QLeq(QInt(MIN_NOTIONAL), QMul(s.price, s.size))

AccResidual(key) ==
  LET k == AccIndex(fill_accumulator, key[1], key[2])
  IN IF k = 0 THEN 0 ELSE fill_accumulator[k].size

\* C4: while the event accumulates, for every accumulator key the shares of
\* the sells emitted (placed or queued as Pending Sell) plus the residual
\* left in the accumulator equal the shares filled, also when a lot is shrunk
\* to the available balance.
C4_AccumulatorConservation ==
  states = "ACCUMULATING" =>
     \A key \in AccKeys :
        obs.emitted[key] + AccResidual(key) = obs.filled[key]

\* C5: every SELL submitted (take-profit lot, pending-sell retry, stop-loss
\* dump) was covered, at the moment of submission, by the token balance
\* minus the open-sell reservations of that token.
C5_SellsCoveredAtSubmission == \A s \in obs.subm : s.covered

ReloadsOf(id) == {j \in Ids : ex[j].via = "reload" /\ ex[j].cause = id}

\* C6: a take-profit sell order causes at most one reload BUY, however many
\* ticks observe its fill, and the reload is for no more than the sell's
\* matched size.
C6_OneReloadPerTakeProfit ==
  \A id \in Ids :
     /\ Cardinality(ReloadsOf(id)) <= 1
     /\ \A j \in ReloadsOf(id) : ex[j].size <= ex[id].matched

\* C7: once the stop-loss dump of a protected entry is on the exchange, the
\* take-profit order it replaces is no longer live there.
C7_OneCancelsOther ==
  \A d \in Ids :
     ex[d].via = "dump" => ex[ex[d].cause].status # "LIVE"

\* C8: initialize_event for a not yet initialized PRE_MARKET event, when the
\* exchange already holds open orders of the event, places no new order: the
\* exchange never ends up with a second ladder, across restarts.
C8_IdempotentRecovery ==
  [][(/\ last'.op = "initialize_event"
      /\ states = "NONE" /\ phase = "PRE_MARKET"
      /\ LiveIds # {})
       => ex' = ex]_vars

\* C9: initialize_event called for an event whose phase is not PRE_MARKET
\* returns 0, submits no order, and leaves the state map, positions,
\* results and order lists as they were.
C9_RejectsNonPreMarket ==
  [][(last'.op = "initialize_event" /\ phase # "PRE_MARKET")
       => /\ last'.ret = 0
          /\ ex' = ex
          /\ obs' = obs
          /\ UNCHANGED engineVars]_vars

\* initialize_event has just returned for an event that is already LIVE
C9_CalledWhenLive ==
  /\ last.op = "initialize_event"
  /\ phase = "LIVE"
  /\ states = "NONE"

\* C10: the strategy state only moves forward: from ACCUMULATING only to
\* EXITING and only in transition_to_live; from EXITING only to COMPLETED and
\* only in check_completion, when no sell of the event is open on the
\* exchange; COMPLETED is never left.
C10_ForwardOnlyStates ==
  [][/\ (states = "NONE" /\ states' # states) => states' = "ACCUMULATING"
     /\ (states = "ACCUMULATING" /\ states' # states)
           => states' = "EXITING" /\ last'.op = "transition_to_live"
     /\ (states = "EXITING" /\ states' # states)
           => /\ states' = "COMPLETED"
              /\ last'.op = "check_completion"
              /\ \A i \in Ids :
                    ex'[i].typ = "SELL" => ex'[i].status # "LIVE"
     /\ states = "COMPLETED" => states' = "COMPLETED"]_vars

\* a tracked sell that left the book unfilled while its shares are still held
VanishedUnfilled(i) ==
  LET o == sell_orders[i]
  IN /\ o.order_id \notin known_filled
     /\ ex[o.order_id].status \in CancelSpellings
     /\ ex[o.order_id].matched = 0
     /\ bal[o.side] >= o.size

\* C11: in EXITING, when check_completion re-queues a tracked sell that
\* vanished from the open orders unfilled while the balance still holds its
\* shares, the event's state is still EXITING after that call.
C11_RequeueKeepsExiting ==
  [][(/\ last'.op = "check_completion"
      /\ states = "EXITING"
      /\ \E i \in 1 .. Len(sell_orders) : VanishedUnfilled(i)
      /\ Len(pending_sells') > Len(pending_sells))
       => states' = "EXITING"]_vars

\* a tracked buy the batch cancel is sent for, holding a fill of at least a
\* whole lot that no read has accounted for yet
HiddenLot(i) ==
  LET b == buy_orders[i]
  IN /\ b.order_id \notin known_filled
     /\ ex[b.order_id].matched - b.processed_size >= MIN_SHARES

\* C12: during transition_to_live with every API call answered, each buy
\* sent for cancellation whose size_matched exceeds its processed_size is
\* handed to process_buy_fill once with delta = size_matched - processed_size,
\* and the sell lot of that fill is emitted: a SELL order is posted for it or
\* a Pending Sell is queued for it.
C12_AuditEmitsSellLot ==
  [][(/\ last'.op = "transition_to_live"
      /\ nfail' = nfail)
       => \A i \in 1 .. Len(buy_orders) :
            HiddenLot(i) =>
              LET b == buy_orders[i]
                  id == b.order_id
                  delta == ex[id].matched - b.processed_size
              IN /\ buy_orders'[i].processed_size = ex[id].matched
                 /\ obs'.fed[id] = obs.fed[id] + delta
                 /\ \/ \E s \in Ids :
                         /\ ex[s] = NoOrder
                         /\ ex'[s].typ = "SELL"
                         /\ ex'[s].side = b.side
                    \/ \E j \in 1 .. Len(pending_sells') :
                         /\ j > Len(pending_sells)
                         /\ pending_sells'[j].side = b.side]_vars

\* the stop-loss of this step handled the live take-profit sell_orders[i]
StopLossHandled(i) ==
  LET tp == sell_orders[i]
  IN /\ last'.op = "check_fills"
     /\ needs_stop_loss(tp.entry_price)
     /\ ex[tp.order_id].status = "LIVE"
     /\ tp.order_id \notin known_filled
     /\ tp.order_id \in known_filled'

\* C13: when the stop-loss triggers for a live take-profit of a protected
\* entry, the take-profit is cancelled on the exchange before the dump, one
\* SELL at 0.01 for the take-profit's full size is submitted, and no BUY is
\* posted because of it: not in that tick, and not later for a take-profit
\* the engine has marked as handled.
C13_CancelThenDumpNoReload ==
  [][/\ \A i \in 1 .. Len(sell_orders) :
          StopLossHandled(i) =>
            LET tp == sell_orders[i]
            IN /\ ex'[tp.order_id].status \in CancelSpellings
               /\ \E s \in obs'.subm :
                     /\ s.via = "dump" /\ s.side = tp.side
                     /\ s.price = QInt(DUMP_PRICE) /\ s.size = tp.size
               /\ \A j \in Ids : ex'[j].typ = "BUY" /\ ex[j] = NoOrder
                                    => ex'[j].cause # tp.order_id
     /\ \A id \in known_filled, j \in Ids :
          ex[id].typ = "SELL" /\ ex[j] = NoOrder /\ ex'[j].typ = "BUY"
             => ex'[j].cause # id]_vars

\* shares filled into an accumulator key that are neither in a sell emitted
\* for the key nor left in the accumulator: the shares given up
Discarded(key) == obs.filled[key] - obs.emitted[key] - AccResidual(key)

\* C14: shares are never given up silently: a call that discards shares of
\* an accumulator key without emitting a sell for them (dust on the LIVE
\* flush, a lot that the balance check shrank below the minimum, tokens all
\* locked) sends an operator notification in that call.
C14_DustNeverSilent ==
  [][\A key \in AccKeys :
        (/\ Discarded(key)' > Discarded(key)
         /\ obs'.emitted[key] = obs.emitted[key])
           => \E n \in 1 .. Len(last'.notes) :
                 last'.notes[n] = "dust_locked"]_vars

\* C15: every ladder rung is a key of EXIT_PRICES: the take-profit placed for
\* a fill of a ladder buy is priced from the table for the buy's rung (a 0.40
\* fill exits at 0.47), never from the fallback default.
C15_LadderFillUsesExitTable ==
  \A s \in Ids :
     ex[s].via = "tp" =>
        LET entry_rounded == QRound(ex[ex[s].cause].price)
        IN /\ entry_rounded \in DOMAIN EXIT_PRICES
           /\ ex[s].price = QInt(EXIT_PRICES[entry_rounded])

\* shares a check_fills step adds to an accumulator key, and the shares the
\* key holds once they are added
AddedTo(key) == obs'.filled[key] - obs.filled[key]
Accumulated(key) == AccResidual(key) + AddedTo(key)

\* the step's accumulated shares of a token over all its exit prices, and
\* whether the unreserved balance of the token covers them
RECURSIVE AccumulatedOver(_, _)
AccumulatedOver(side, exits) ==
  IF exits = {} THEN 0
  ELSE LET e == CHOOSE x \in exits : TRUE
       IN Accumulated(<<side, e>>) + AccumulatedOver(side, exits \ {e})
Covered(side) ==
  bal[side] - Reserved(ex, side) >= AccumulatedOver(side, ExitLevels)

C17_ProcessedSizeBoundedMonotone ==
  [][/\ \A i \in 1 .. Len(buy_orders') :
          /\ buy_orders'[i].processed_size <= buy_orders'[i].size
          /\ buy_orders'[i].processed_size
                <= ex'[buy_orders'[i].order_id].size
          /\ i <= Len(buy_orders) =>
               /\ buy_orders'[i].order_id = buy_orders[i].order_id
               /\ buy_orders'[i].processed_size
                     >= buy_orders[i].processed_size
     /\ \A i \in 1 .. Len(sell_orders') :
          /\ sell_orders'[i].processed_size <= sell_orders'[i].size
          /\ i <= Len(sell_orders) =>
               sell_orders'[i].processed_size
                  >= sell_orders[i].processed_size]_vars

\* a buy that was read at a smaller size_matched than it had processed
C17_ReadWentBack ==
  \E i \in 1 .. Len(buy_orders) :
     /\ obs.back[buy_orders[i].order_id] > 0
     /\ buy_orders[i].processed_size > 0
     /\ buy_orders[i].processed_size = obs.seen[buy_orders[i].order_id]

\* C18: over any sequence of status reads of a buy (check_fills ticks and
\* the audit of the LIVE transition), the Positions created for it are as
\* many as the reads that showed more than processed_size: a read whose
\* size_matched equals processed_size creates no Position and hands nothing
\* to process_buy_fill.
C18_OnePositionPerNewFill ==
  \A id \in Ids :
     /\ obs.npos[id] = obs.nread[id]
     /\ obs.nread[id] = 0 => obs.fed[id] = 0

\* a check_fills call that read a partly filled high-priority buy again and
\* found nothing new
C18_RereadWithoutDelta ==
  /\ last.op = "check_fills"
  /\ \A n \in 1 .. Len(last.notes) : last.notes[n] # "buy_filled"
  /\ \E i \in 1 .. Len(buy_orders) :
        LET b == buy_orders[i]
        IN /\ QLeq(QInt(HIGH_PRIORITY), b.price)
           /\ b.order_id \notin known_filled
           /\ b.api_fail_count = 0
           /\ b.processed_size > 0
           /\ b.processed_size = ex[b.order_id].matched
           /\ obs.npos[b.order_id] = 1

\* orders that an engine call put on the exchange
NewIds == {id \in Ids : ex[id].status = "NONE" /\ ex'[id].status # "NONE"}

\* C19: when initialize_event finds no open order to recover, it submits one
\* limit BUY of ORDER_SIZE for each (side, price) of {YES, NO} x
\* LADDER_LEVELS, each exactly once; afterwards the tracked buys are exactly
\* the orders the exchange accepted, no sell is tracked, and the value
\* returned is their number: a rung that failed is absent and is not asked
\* for again.
C19_LadderPlacedOnce ==
  [][(/\ last'.op = "initialize_event"
      /\ \E n \in 1 .. Len(last'.notes) : last'.notes[n] = "ladder_placed")
       => /\ Len(obs'.asked) = 2 * Len(LADDER_LEVELS)
          /\ \A side \in Sides, l \in 1 .. Len(LADDER_LEVELS) :
                Cardinality({n \in 1 .. Len(obs'.asked) :
                               obs'.asked[n] = <<side, QInt(LADDER_LEVELS[l]),
                                                 ORDER_SIZE>>}) = 1
          /\ TrackedIds(buy_orders') = NewIds
          /\ Len(buy_orders') = Cardinality(NewIds)
          /\ \A i \in 1 .. Len(buy_orders') :
                LET b == buy_orders'[i]
                    o == ex'[b.order_id]
                IN /\ o.typ = "BUY" /\ o.status = "LIVE"
                   /\ o.side = b.side /\ o.price = b.price
                   /\ o.size = ORDER_SIZE /\ b.size = ORDER_SIZE
                   /\ b.processed_size = 0
          /\ sell_orders' = <<>>
          /\ last'.ret = Cardinality(NewIds)]_vars

\* a ladder of which the exchange accepted one rung and refused the others
C19_PartlyPlacedLadder ==
  /\ last.op = "initialize_event"
  /\ last.ret = 1
  /\ Len(buy_orders) = 1
  /\ Len(obs.asked) = 2 * Len(LADDER_LEVELS)
  /\ Cardinality(LiveIds) = 1

\* C20: when check_completion declares the event COMPLETED, the pending-sell
\* queue holds no entry of the event, and once the event is COMPLETED no
\* SELL is placed for it.
C20_NoPendingSellAtCompletion ==
  [][/\ (states = "EXITING" /\ states' = "COMPLETED")
          => pending_sells' = <<>>
     /\ states = "COMPLETED"
          => \A id \in NewIds : ex'[id].typ # "SELL"]_vars

\* C21: in a check_fills call, process_buy_fill never empties an accumulator
\* entry without emitting a sell for it: when nothing is emitted for a key
\* (the available balance does not allow a lot of the minimum size), the
\* entry keeps what it held plus the fills the call added.
C21_ShrinkOrKeep ==
  [][last'.op = "check_fills"
       => \A key \in AccKeys :
            obs'.emitted[key] = obs.emitted[key]
               => AccResidual(key)' = Accumulated(key)]_vars

\* C22: a take-profit of a protected entry that is live before a check_fills
\* call and still live after it (it was not cancelled: the stop-loss did not
\* trigger, or its cancellation failed) is left untouched by the call: it is
\* not marked terminally known and no market-crossing SELL is submitted in
\* its place.
C22_DeferWhenCancelFails ==
  [][last'.op = "check_fills"
       => \A i \in 1 .. Len(sell_orders) :
            LET tp == sell_orders[i]
            IN (/\ needs_stop_loss(tp.entry_price)
                /\ tp.order_id \notin known_filled
                /\ ex[tp.order_id].status = "LIVE"
                /\ ex'[tp.order_id].status = "LIVE")
                 => /\ tp.order_id \notin known_filled'
                    /\ \A d \in obs'.subm \ obs.subm :
                          ~(d.via = "dump" /\ d.side = tp.side
                               /\ d.size = tp.size)]_vars

\* C23: a Pending Sell whose retry fails while the token balance is 0 stays
\* in the queue after process_pending_sells, and leaves it only after more
\* than 60 attempts and together with the settlement-timeout alert.
C23_ZeroBalanceRetriedToSixty ==
  [][(last'.op = "process_pending_sells" /\ nfail' = nfail)
       => \A k \in 1 .. Len(pending_sells) :
            LET p == pending_sells[k]
            IN (p.size >= MIN_SHARES /\ bal[p.side] = 0)
                 => \/ \E q \in 1 .. Len(pending_sells') :
                          /\ pending_sells'[q].side = p.side
                          /\ pending_sells'[q].exit_price = p.exit_price
                          /\ pending_sells'[q].size = p.size
                    \/ /\ p.attempts + 1 > 60
                       /\ \E n \in 1 .. Len(last'.notes) :
                             last'.notes[n] = "settlement_timeout"]_vars

\* C24: a check_fills or check_completion call whose status reads come back
\* empty leaves the orders it could not read out of the terminally-known set
\* and with their processed_size, and leaves the positions, the accumulator,
\* the pending-sell queue and the strategy state as they were.
C24_EmptyReadMutatesNothing ==
  [][(last'.op \in {"check_fills", "check_completion"} /\ last'.unread # {})
       => /\ \A id \in last'.unread :
                /\ id \in known_filled' => id \in known_filled
                /\ \A i \in 1 .. Len(buy_orders) :
                      buy_orders[i].order_id = id
                        => buy_orders'[i].processed_size
                             = buy_orders[i].processed_size
          /\ positions' = positions
          /\ fill_accumulator' = fill_accumulator
          /\ pending_sells' = pending_sells
          /\ states' = states]_vars

\* the pending-sell queue holds an entry for a refused SELL placement
Queued(r) ==
  \E q \in 1 .. Len(pending_sells) :
     /\ pending_sells[q].side = r.side
     /\ pending_sells[q].exit_price = r.price
     /\ pending_sells[q].size = r.size
RefusedSells(vias) ==
  IF last.op \in {"check_fills", "transition_to_live"}
  THEN {r \in last.rejected : r.typ = "SELL" /\ r.via \in vias}
  ELSE {}

\* C25 (as stated): after a call in which a first-time SELL placement was
\* refused, a take-profit lot or a stop-loss dump alike, the queue holds a
\* Pending Sell of the same token, price and size.
C25_RefusedSellQueued == \A r \in RefusedSells({"tp", "dump"}) : Queued(r)

\* C25 (amended): after a call in which the placement of a take-profit lot
\* was refused, the queue holds a Pending Sell of the same token, price and
\* size; a refused stop-loss dump is not queued at all, the call raises the
\* operator alert instead.
C25_RefusedLotQueuedDumpAlerted ==
  /\ \A r \in RefusedSells({"tp"}) : Queued(r)
  /\ \A r \in RefusedSells({"dump"}) :
        \E n \in 1 .. Len(last.notes) : last.notes[n] = "stop_loss_failed"
  /\ \A q \in 1 .. Len(pending_sells) :
        pending_sells[q].exit_price # QInt(DUMP_PRICE)

\* a take-profit lot was refused and waits in the queue
C25_LotWaitsInQueue ==
  \E r \in RefusedSells({"tp"}) :
     \E q \in 1 .. Len(pending_sells) :
        /\ pending_sells[q].side = r.side
        /\ pending_sells[q].exit_price = r.price
        /\ pending_sells[q].size = r.size
        /\ pending_sells[q].attempts = 1

\* what the exchange reports of an order is terminal for a buy
TerminalBuy(o) ==
  \/ o.matched >= o.size
  \/ o.status \in {"MATCHED", "CANCELLED", "CANCELED"}
  \/ o.status \in {"INVALID", "EXPIRED", "REJECTED"} /\ o.matched = 0

\* C26: a check_fills call whose status reads are all answered marks every
\* tracked buy terminally known whose order is fully matched, or MATCHED, or
\* cancelled under either spelling, or INVALID, EXPIRED or REJECTED with no
\* fill.
C26_TerminalBuyMarkedKnown ==
  [][(last'.op = "check_fills" /\ last'.unread = {})
       => \A i \in 1 .. Len(buy_orders) :
             LET id == buy_orders[i].order_id
             IN (id \notin known_filled /\ TerminalBuy(ex[id]))
                  => id \in known_filled']_vars

\* unfilled size of the live tracked buys of a side among the ids 1 .. i
RECURSIVE OpenBuySize(_, _)
OpenBuySize(side, i) ==
  IF i = 0 THEN 0
  ELSE OpenBuySize(side, i - 1) +
       (IF /\ \E b \in 1 .. Len(buy_orders) : buy_orders[b].order_id = i
           /\ ex[i].side = side /\ ex[i].typ = "BUY"
           /\ ex[i].status = "LIVE"
        THEN ex[i].size - ex[i].matched ELSE 0)
\* live buys still to fill plus the shares bought and not yet sold
Exposure(side) == OpenBuySize(side, MaxOrders) + bal[side] + unsettled[side]
\* the rungs of a side that initialize_event placed
LadderPlaced(side) ==
  Cardinality({j \in Ids : ex[j].via = "ladder" /\ ex[j].side = side})

\* C27: for each side the unfilled size of the live tracked buys plus the
\* shares bought and not yet sold never exceeds the ladder that was placed,
\* ORDER_SIZE per rung (len(LADDER_LEVELS) x ORDER_SIZE for a whole ladder):
\* reloads only replace shares that were sold.
C27_ExposureWithinLadder ==
  \A side \in Sides : Exposure(side) <= LadderPlaced(side) * ORDER_SIZE

NoteAt(kind) == {n \in 1 .. Len(last.notes) : last.notes[n] = kind}

\* C28: a transition_to_live call made in state ACCUMULATING with every API
\* call answered cancels every live buy that is not terminally known and
\* returns their number, audits those buys and no others (processed_size
\* follows size_matched for them and stays for the rest), leaves no share
\* in the accumulator (the flush runs after the audit), ends in EXITING and
\* changes no sell order on the exchange; made in any other state it
\* changes nothing and returns 0.
C28_CancelAuditFlushExit ==
  [][last'.op = "transition_to_live"
       => IF states = "ACCUMULATING"
          THEN /\ states' = "EXITING"
               /\ \A i \in Ids :
                     ex[i].typ = "SELL" => ex'[i].status = ex[i].status
               /\ \A k \in 1 .. Len(fill_accumulator') :
                     fill_accumulator'[k].size = 0
               /\ \A b \in 1 .. Len(buy_orders) :
                     LET id == buy_orders[b].order_id
                     IN IF id \in known_filled
                        THEN /\ ex'[id] = ex[id]
                             /\ buy_orders'[b] = buy_orders[b]
                        ELSE nfail' = nfail
                               => /\ ex'[id].status # "LIVE"
                                  /\ buy_orders'[b].processed_size
                                       = Max(buy_orders[b].processed_size,
                                             ex[id].matched)
               /\ nfail' = nfail
                    => last'.ret =
                         Cardinality({id \in TrackedIds(buy_orders)
                                               \ known_filled :
                                        ex[id].status = "LIVE"})
          ELSE /\ UNCHANGED <<engineVars, ex, obs>>
               /\ last'.ret = 0 /\ last'.notes = <<>>]_vars

\* the audit found a fill below the minimum lot and the flush that followed
\* in the same call dropped it with its notification
C28_AuditedFillFlushed ==
  /\ last.op = "transition_to_live" /\ states = "EXITING"
  /\ \E a \in NoteAt("buy_filled"), f \in NoteAt("dust_locked") : a < f

\* the call came for an event that is not ACCUMULATING and returned 0
ReturnedZeroAtOnce ==
  last.op = "transition_to_live" /\ states = "NONE" /\ last.ret = 0

\* C29: once the event is EXITING or COMPLETED no accumulator entry holds a
\* non-zero size, whenever the buy fills behind it were observed.
C29_NoResidueAfterTransition ==
  states \in {"EXITING", "COMPLETED"}
    => \A k \in 1 .. Len(fill_accumulator) : fill_accumulator[k].size = 0

\* every share that was bought has been sold
AllSold == \A side \in Sides : bal[side] + unsettled[side] = 0

\* C30: after a check_fills call that read every order it asked for, with
\* every bought share sold again (the sells covering them have filled), the
\* position list is empty.
C30_PositionsClosedWhenSold ==
  (last.op = "check_fills" /\ last.unread = {} /\ AllSold)
    => positions = <<>>

\* what the first entry of the queue sees as available when every API call
\* of a process_pending_sells call is answered: the book as it was before
Available(side) == bal[side] - Reserved(ex, side)
\* the first entry is tried, refused, and 0 < available < size
HeadShort ==
  /\ pending_sells # <<>>
  /\ Head(pending_sells).size >= MIN_SHARES
  /\ 0 < Available(Head(pending_sells).side)
  /\ Available(Head(pending_sells).side) < Head(pending_sells).size
Answered(op) == last'.op = op /\ nfail' = nfail

HeadRefusedThoughCovered ==
  /\ Len(pending_sells) = 1
  /\ LET p == Head(pending_sells)
     IN /\ p.size >= MIN_SHARES
        /\ Available(p.side) >= p.size
        /\ [via |-> "pending", side |-> p.side, typ |-> "SELL",
            price |-> p.exit_price, size |-> p.size] \in last'.rejected
        \* the balance read was answered: either no endpoint was down, or
        \* the refusal of a covered order with an order id to spare shows
        \* that the endpoint that was down is the placement
        /\ nfail' = nfail \/ FreeIds(World) # {}

\* C32: a Pending Sell whose placement fails although available >= size
\* stays in the queue, one attempt older, until its attempts counter has
\* passed 10; the call that takes the counter past 10 removes it and raises
\* the operator alert, and no entry ever waits with a counter above 10.
C32_RetriedToTenThenAlert ==
  [][(last'.op = "process_pending_sells" /\ HeadRefusedThoughCovered)
       => LET p == Head(pending_sells)
          IN /\ p.attempts <= 10
             /\ IF p.attempts + 1 <= 10
                THEN /\ pending_sells' # <<>>
                     /\ Head(pending_sells') = [p EXCEPT !.attempts = @ + 1]
                ELSE /\ \A q \in 1 .. Len(pending_sells') :
                           pending_sells'[q].attempts <= 10
                     /\ Len(pending_sells') < Len(pending_sells)
                     /\ \E n \in 1 .. Len(last'.notes) :
                           last'.notes[n] = "sell_gave_up"]_vars

\* the retry that took the counter past 10 gave the entry up with the alert
C32_GaveUpAfterTen ==
  /\ last.op = "process_pending_sells"
  /\ NoteAt("sell_gave_up") # {}

\* the call tried to place the only entry of the queue
HeadTried ==
  LET p == Head(pending_sells)
  IN \/ [via |-> "pending", side |-> p.side, typ |-> "SELL",
         price |-> p.exit_price, size |-> p.size] \in last'.rejected
     \/ Len(sell_orders') > Len(sell_orders)
\* size x exit_price < MIN_NOTIONAL, the price being a fraction of cents
BelowNotional(p) == p.size * p.exit_price.n < MIN_NOTIONAL * p.exit_price.d

\* C33: process_pending_sells drops an entry without trying to place it
\* exactly when size x exit_price < MIN_NOTIONAL, and such a drop sends an
\* operator notification.
C33_DustDroppedByNotionalWithNotice ==
  [][(last'.op = "process_pending_sells" /\ Len(pending_sells) = 1)
       => LET p == Head(pending_sells)
              dropped == ~HeadTried /\ pending_sells' = <<>>
          IN /\ dropped <=> BelowNotional(p)
             /\ dropped => last'.notes # <<>>]_vars

\* a live SELL of the entry's token at the entry's exit price
MatchingOpenSell(p) ==
  \E i \in Ids : /\ ex[i].status = "LIVE" /\ ex[i].typ = "SELL"
                 /\ ex[i].side = p.side /\ QNear(ex[i].price, p.exit_price)
\* the only entry is refused and leaves the queue at once and silently:
\* before the attempts cap of its branch and not as dust
HeadDroppedAsPlaced ==
  /\ last'.op = "process_pending_sells"
  /\ Len(pending_sells) = 1 /\ pending_sells' = <<>>
  /\ last'.notes = <<>>
  /\ LET p == Head(pending_sells)
     IN /\ p.size >= MIN_SHARES /\ p.attempts + 1 <= 5
        /\ [via |-> "pending", side |-> p.side, typ |-> "SELL",
            price |-> p.exit_price, size |-> p.size] \in last'.rejected
        /\ ~(0 < Available(p.side) /\ Available(p.side) < MIN_SHARES)
        /\ ~(0 < bal[p.side] /\ bal[p.side] < MIN_SHARES)

\* C34: a refused Pending Sell is dropped silently as already placed only if
\* a live SELL of the same token at the same exit price exists and, when the
\* balance and the open orders were read, the open-sell reservations leave
\* nothing available.
C34_DroppedAsPlacedOnlyWithOpenSell ==
  [][HeadDroppedAsPlaced
       => /\ MatchingOpenSell(Head(pending_sells))
          /\ nfail' = nfail
               => Available(Head(pending_sells).side) <= 0]_vars

\* an entry was dropped as already placed: its sell is live on the book
C34_DroppedWithSellOnBook ==
  /\ last.op = "process_pending_sells"
  /\ pending_sells = <<>> /\ last.notes = <<>>
  /\ \E r \in last.rejected :
        /\ r.via = "pending" /\ Available(r.side) <= 0
        /\ \E i \in Ids : /\ ex[i].status = "LIVE" /\ ex[i].typ = "SELL"
                          /\ ex[i].side = r.side /\ ex[i].price = r.price

\* the stop-loss of a tracked sell fired in this call: its market-crossing
\* sell was submitted, accepted or not
Fired(o) ==
  \/ \E j \in Ids : /\ ex[j].status = "NONE"
                    /\ ex'[j].via = "dump" /\ ex'[j].cause = o.order_id
  \/ [via |-> "dump", side |-> o.side, typ |-> "SELL",
      price |-> QInt(DUMP_PRICE), size |-> o.size] \in last'.rejected

\* the entry price of a sell, rounded to cents, is a protected entry
Protected(o) == QRound(o.entry_price) \in STOP_LOSS_ENTRIES

\* C35: in a check_fills call with every API call answered the stop-loss
\* fires for every tracked sell that is live, not terminally known and has a
\* protected entry price, when the last-refreshed best bid of its outcome
\* lies between 0.10 and STOP_LOSS_PRICE; in no call does it fire for a sell
\* with an unprotected entry price or with a bid outside that range (no bid
\* data, a bid below 0.10, a bid above the stop-loss price).
C35_StopLossFiresWhenArmed ==
  [][last'.op = "check_fills"
       => \A i \in 1 .. Len(sell_orders) :
            LET o == sell_orders[i]
            IN /\ (/\ nfail' = nfail
                   /\ o.order_id \notin known_filled
                   /\ ex[o.order_id].status = "LIVE"
                   /\ Protected(o)
                   /\ o.side \in last'.armed) => Fired(o)
               /\ (o.order_id \notin known_filled /\ Fired(o))
                    => /\ Protected(o)
                       /\ o.side \in last'.armed]_vars

\* the bid of a protected outcome fell into the range and its sell was dumped
C35_DumpedOnArmedBid ==
  /\ last.op = "check_fills" /\ NoteAt("stop_loss_executed") # {}
  /\ \E j \in Ids : ex[j].via = "dump" /\ ex[j].side \in last.armed

\* the event holds a slot of the scanner although it was found already LIVE
\* and never handed to the engine
HeldUninitialized ==
  /\ run.active /\ states = "NONE" /\ phase = "LIVE"
  /\ pc \in TickPcs

\* C36: every event admitted to the scanner's active set is eventually
\* removed from it while the loop runs; in particular an event that was
\* discovered already LIVE, and so never initialized by the engine, does not
\* keep its slot forever: it leaves the active set (or run() ends).
C36_LiveDiscoveredEventLeaves ==
  HeldUninitialized ~> (~run.active \/ pc = "returned")

\* what is left of an entry's retries: a size cut restarts the count of ten
PendingRank(p) == 11 * p.size + (10 - p.attempts)

\* q is the entry p after one more failed placement
RankFell(p, q) ==
  /\ q.side = p.side /\ q.exit_price = p.exit_price
  /\ q.entry_price = p.entry_price
  /\ PendingRank(q) < PendingRank(p)
  /\ PendingRank(q) >= 0

\* new is old with some entries gone and every other entry's rank lower
RECURSIVE Progressed(_, _)
Progressed(old, new) ==
  IF new = <<>> THEN TRUE
  ELSE IF old = <<>> THEN FALSE
  ELSE \/ RankFell(Head(old), Head(new)) /\ Progressed(Tail(old), Tail(new))
       \/ Progressed(Tail(old), new)

\* C37: every Pending Sell entry leaves the queue after a bounded number of
\* process_pending_sells calls: each call either removes an entry (placed or
\* dropped) or lowers its rank 11 x size + (10 - attempts), which is never
\* negative; the reset of attempts on a size adjustment comes with a smaller
\* size and so cannot keep an entry for ever.
C37_PendingEntryRankFalls ==
  [][last'.op = "process_pending_sells"
       => Progressed(pending_sells, pending_sells')]_vars

C37_EntryKeptAndCounted ==
  /\ last.op = "process_pending_sells"
  /\ \E i \in 1 .. Len(pending_sells) : pending_sells[i].attempts >= 3

\* the order of a tick's work as the specification states it
StatedTickOrder == <<"scan", "phase_update", "fills", "pending_retry",
                     "stop_loss", "completion", "heartbeat">>

RECURSIVE IsSubSeq(_, _)
IsSubSeq(s, t) ==
  IF s = <<>> THEN TRUE
  ELSE IF t = <<>> THEN FALSE
  ELSE IF Head(s) = Head(t) THEN IsSubSeq(Tail(s), Tail(t))
  ELSE IsSubSeq(s, Tail(t))

\* C38: within one tick the work runs in the order scan, phase update, fill
\* reconciliation, pending-sell retry, stop-loss evaluation, completion check,
\* heartbeat: what a tick has done so far is always in that order, so the
\* pending-sell retry of a tick never comes after its completion check.
C38_TickWorkInStatedOrder == IsSubSeq(run.done, StatedTickOrder)

\* C39: every way run() ends (loop stopped, task cancelled, exception in a
\* tick, failed start) has called the exchange's cancel-all exactly once by
\* the time run() returns.
C39_CancelAllOnceOnEveryExit == pc = "returned" => run.cancel_alls = 1

EngineCalls == {"check_fills", "transition_to_live", "check_completion",
                "process_pending_sells", "initialize_event"}

\* nothing the engine records about the order id changes in the step: no
\* status read, no fill processed, no PnL added
Untouched(id) ==
  /\ id \notin last'.unread
  /\ obs'.seen[id] = obs.seen[id] /\ obs'.nread[id] = obs.nread[id]
  /\ obs'.back[id] = obs.back[id] /\ obs'.fed[id] = obs.fed[id]
  /\ obs'.npos[id] = obs.npos[id] /\ obs'.credit[id] = obs.credit[id]
  /\ obs'.ncredit[id] = obs.ncredit[id]

\* a tracked sell that is marked terminally known and still on the book
KnownSellOnBook ==
  \E i \in 1 .. Len(sell_orders) :
     /\ sell_orders[i].order_id \in known_filled
     /\ ex[sell_orders[i].order_id].status = "LIVE"

\* no tracked sell outside the known set is on the book
UnknownSellsClosed ==
  \A i \in 1 .. Len(sell_orders) :
     \/ sell_orders[i].order_id \in known_filled
     \/ ex[sell_orders[i].order_id].status # "LIVE"

\* C40: the terminal marking is permanent and absorbing: an order id in the
\* known set stays in it, and no engine call reads its status, processes a
\* fill for it or cancels it (its exchange record is left as it was, also by
\* the batch cancel of transition_to_live); check_completion does not count
\* it as still open: with only known sells left on the book it completes.
C40_TerminalMarkingAbsorbing ==
  [][/\ \A id \in known_filled :
          /\ id \in known_filled'
          /\ last'.op \in EngineCalls => Untouched(id) /\ ex'[id] = ex[id]
     /\ (/\ last'.op = "check_completion"
         /\ states = "EXITING"
         /\ KnownSellOnBook /\ UnknownSellsClosed)
          => states' = "COMPLETED"]_vars

C40_CompletedOverKnownSell ==
  /\ last.op = "check_completion" /\ states = "COMPLETED"
  /\ KnownSellOnBook

====
